---- MODULE Spec2Model ----
(***************************************************************************)
(* Dashboard generator (Home.py, pages/Dashboard.py, utils/*.py and the    *)
(* single-file variant streamlit_app.py): the session state               *)
(* (st.session_state.data / charts / show_modal), the upload handler, the  *)
(* chart dialog, the date filter and the four chart renderers.             *)
(*                                                                         *)
(* Time is counted in ticks: TicksPerSec ticks make a second, SecsPerDay   *)
(* seconds a day.  A timestamp is a number of ticks since day 0 00:00 UTC. *)
(***************************************************************************)
EXTENDS Integers, Sequences, FiniteSets, TLC

\* ------------------------------------------------------------------ bounds
TicksPerSec == 2
SecsPerDay == 2
MaxDays == 3
MaxEntries == 2
MaxLoadEntries == 2
MaxCharts == 2
MaxTableCols == 1

TicksPerDay == SecsPerDay * TicksPerSec

\* ------------------------------------------------------------ JSON values
\* A JSON scalar as json.load returns it: a number, a string that is no date,
\* an ISO-8601 string (wall-clock tick v at UTC offset off ticks; all of one
\* format), or null.
JNum(n) == [k |-> "num", v |-> n, off |-> 0]
JStr == [k |-> "str", v |-> 0, off |-> 0]
JIso(t, o) == [k |-> "iso", v |-> t, off |-> o]
JNull == [k |-> "null", v |-> 0, off |-> 0]
\* A DataFrame cell with no value.
NaN == [k |-> "nan", v |-> 0, off |-> 0]
NaT == -1
NoneStr == "<None>"

ReservedKeys == {"pld", "asset_type", "timestamp"}
ParamNames == {"flow", "pressure"}

\* ------------------------------------------------------- load_and_process
\* flat_record of one entry: the three .get()s, then update() with the
\* parameters dict, which overwrites 'timestamp' when it has that key.
flat_record(entry) ==
    [pld |-> entry.pld,
     asset_type |-> entry.asset_type,
     timestamp |-> IF "timestamp" \in DOMAIN entry.parameters
                   THEN entry.parameters["timestamp"]
                   ELSE entry.timestamp,
     cells |-> [c \in ParamNames |->
                  IF c \in DOMAIN entry.parameters
                  THEN entry.parameters[c] ELSE NaN]]

\* pd.to_datetime(errors='coerce', utc=True) on one value.
pd_to_datetime(v) == IF v.k = "iso" THEN v.v - v.off ELSE NaT

EmptyDF == [rows |-> <<>>, columns |-> {}, numeric |-> {}]

\* pd.DataFrame(records): the columns are the keys of all records; a
\* parameter column is numeric when every value it holds is a number.
DataFrame(records) ==
    LET n == Len(records)
        present(c) == {i \in 1..n : records[i].cells[c] # NaN}
        cols == {c \in ParamNames : present(c) # {}}
    IN  IF n = 0 THEN EmptyDF
        ELSE [rows |-> [i \in 1..n |->
                          [index |-> i,
                           pld |-> records[i].pld,
                           asset_type |-> records[i].asset_type,
                           timestamp |-> pd_to_datetime(records[i].timestamp),
                           cells |-> records[i].cells]],
              columns |-> ReservedKeys \cup cols,
              numeric |-> {c \in cols :
                             \A i \in present(c) : records[i].cells[c].k = "num"}]

\* dropna left out: the rows whose timestamp did not parse stay.
dropna_left_out(df) == df

\* df.dropna(subset=['timestamp'])
dropna(df) ==
    [df EXCEPT !.rows = SelectSeq(df.rows, LAMBDA r : r.timestamp # NaT)]

load_and_process_data(file) ==
    IF file.kind # "list" THEN EmptyDF
    ELSE LET records == [i \in 1..Len(file.entries) |-> flat_record(file.entries[i])]
             df == DataFrame(records)
         IN  IF "timestamp" \notin df.columns THEN EmptyDF ELSE dropna(df)

empty(df) == Len(df.rows) = 0 \/ df.columns = {}

\* ------------------------------------------------------------ Dashboard.py
RECURSIVE unique(_)
\* Series.unique(): the distinct values in order of first appearance.
unique(s) ==
    IF s = <<>> THEN <<>>
    ELSE LET u == unique(SubSeq(s, 1, Len(s) - 1))
             x == s[Len(s)]
         IN  IF \E i \in 1..Len(u) : u[i] = x THEN u ELSE Append(u, x)

Range(s) == {s[i] : i \in 1..Len(s)}
SetMin(S) == CHOOSE x \in S : \A y \in S : x <= y
SetMax(S) == CHOOSE x \in S : \A y \in S : x >= y

\* Timestamp.date(): the UTC calendar day of a tick.
date(t) == t \div TicksPerDay

asset_types(df) == unique([i \in 1..Len(df.rows) |-> df.rows[i].asset_type])
min_date(df) == SetMin({date(r.timestamp) : r \in Range(df.rows)})
max_date(df) == SetMax({date(r.timestamp) : r \in Range(df.rows)})

\* pd.Timestamp(from_date, tz): midnight of the day.
from_datetime(fd) == fd * TicksPerDay
\* pd.Timestamp(to_date, tz) + Timedelta(days=1) - Timedelta(seconds=1)
to_datetime(td) == td * TicksPerDay + TicksPerDay - TicksPerSec

chart_df(df, config, fd, td) ==
    [df EXCEPT !.rows = SelectSeq(df.rows, LAMBDA r :
        /\ r.asset_type = config.asset_type
        /\ r.timestamp >= from_datetime(fd)
        /\ r.timestamp <= to_datetime(td))]

\* ------------------------------------------------------------- charting.py
\* DataFrame.sort_values('timestamp') with the default kind='quicksort',
\* which is not stable: rows of equal timestamp come out in some order.
\* ord is that order, a permutation of the index labels of the dataset that
\* ascends in timestamp; the rows are arranged as ord arranges their labels.
SortOrders(df) ==
    LET n == Len(df.rows)
        ts(lbl) == (CHOOSE r \in Range(df.rows) : r.index = lbl).timestamp
        labels == {r.index : r \in Range(df.rows)}
    IN  {o \in [1..n -> labels] :
           /\ \A a, b \in 1..n : a # b => o[a] # o[b]
           /\ \A a, b \in 1..n : a < b => ts(o[a]) <= ts(o[b])}

sort_values(rows, ord) ==
    LET kept == SelectSeq(ord, LAMBDA lbl : \E r \in Range(rows) : r.index = lbl)
    IN  [k \in 1..Len(kept) |-> CHOOSE r \in Range(rows) : r.index = kept[k]]

RECURSIVE SumCells(_)
\* Series.sum(): the numbers added up, NaN skipped (0 when there is none).
SumCells(s) ==
    IF s = <<>> THEN 0
    ELSE SumCells(Tail(s)) + (IF Head(s).k = "num" THEN Head(s).v ELSE 0)

\* Series.count(): how many cells hold a value.
CountCells(s) == Len(SelectSeq(s, LAMBDA c : c # NaN))

\* Series.agg('sum' | 'mean') as a fraction num/den; den = 0 is NaN.
agg(cells, agg_func) ==
    IF agg_func = "sum" THEN [num |-> SumCells(cells), den |-> 1]
    ELSE [num |-> SumCells(cells), den |-> CountCells(cells)]

column(rows, c) == [i \in 1..Len(rows) |-> rows[i].cells[c]]

RECURSIVE SetToSeq(_)
SetToSeq(S) ==
    IF S = {} THEN <<>>
    ELSE LET x == CHOOSE y \in S : TRUE IN <<x>> \o SetToSeq(S \ {x})

render_line_chart(df, config, ord) ==
    IF config.display_mode = "Individual"
    THEN IF df.rows # <<>> /\ config.parameter \notin df.columns
         THEN [kind |-> "error"]
         ELSE [kind |-> "line",
               series |-> [p \in {r.pld : r \in Range(df.rows)} |->
                   LET group == sort_values(
                           SelectSeq(df.rows, LAMBDA r : r.pld = p), ord)
                   IN  [i \in 1..Len(group) |->
                          [timestamp |-> group[i].timestamp,
                           value |-> group[i].cells[config.parameter]]]]]
    ELSE IF config.parameter \notin df.columns
         THEN [kind |-> "error"]
         ELSE \* pd.Grouper(freq='D'): one bin per day from the first day
              \* with a row to the last, the days in between included.
              LET days == {date(r.timestamp) : r \in Range(df.rows)}
                  first == IF days = {} THEN 0 ELSE SetMin(days)
                  count == IF days = {} THEN 0 ELSE SetMax(days) - first + 1
              IN  [kind |-> "grouped",
                   data |-> [k \in 1..count |->
                       LET bin == SelectSeq(df.rows, LAMBDA r :
                                      date(r.timestamp) = first + k - 1)
                       IN  [day |-> first + k - 1,
                            value |-> agg(column(bin, config.parameter),
                                          config.aggregation)]]]

render_table(df, config) ==
    [kind |-> "table",
     display_cols |-> <<"timestamp", "pld">> \o
         SelectSeq(config.parameters, LAMBDA c : c \in df.columns),
     index |-> [i \in 1..Len(df.rows) |-> df.rows[i].index]]

\* GroupBy.last(): per pld the last cell of the column that holds a value.
groupby_last(sorted, c) ==
    [p \in {r.pld : r \in Range(sorted)} |->
        LET valid == SelectSeq(sorted, LAMBDA r : r.pld = p /\ r.cells[c] # NaN)
        IN  IF valid = <<>> THEN NaN ELSE valid[Len(valid)].cells[c]]

render_big_number(df, config, ord) ==
    IF ~empty(df) /\ config.parameter \in df.columns
    THEN LET latest_df == groupby_last(sort_values(df.rows, ord), config.parameter)
             vals == SetToSeq(DOMAIN latest_df)
         IN  [kind |-> "metric",
              value |-> agg([i \in 1..Len(vals) |-> latest_df[vals[i]]],
                            config.aggregation)]
    ELSE [kind |-> "N/A"]

\* pick is the pld the user chose in the gauge's selectbox; the selectbox
\* shows the first pld of the list until one of the list is chosen.
render_gauge(df, config, ord, pick) ==
    LET pld_list == unique([i \in 1..Len(df.rows) |-> df.rows[i].pld])
    IN  IF pld_list = <<>> THEN [kind |-> "warning"]
        ELSE LET selected_pld == IF pick \in Range(pld_list) THEN pick
                                 ELSE pld_list[1]
                 asset_df == sort_values(
                     SelectSeq(df.rows, LAMBDA r : r.pld = selected_pld), ord)
             IN  IF asset_df # <<>> /\ config.parameter \in df.columns
                 THEN [kind |-> "gauge",
                       pld |-> selected_pld,
                       value |-> asset_df[Len(asset_df)].cells[config.parameter],
                       min |-> IF "min_val" \in DOMAIN config
                               THEN config.min_val ELSE 0,
                       max |-> IF "max_val" \in DOMAIN config
                               THEN config.max_val ELSE 100]
                 ELSE [kind |-> "info", pld |-> selected_pld]

\* One rerun of the chart loop of Dashboard.py: per chart its slice and what
\* its renderer produced.  The global asset-type selector stays at "All",
\* its default, so show_chart holds for every chart.  An exception in a renderer ends the run, so the
\* charts after it are not rendered.
render_chart(df, config, fd, td, ord, pick) ==
    LET slice == chart_df(df, config, fd, td)
    IN  [chart_df |-> slice.rows,
         out |-> CASE config.type = "Line Chart" -> render_line_chart(slice, config, ord)
                   [] config.type = "Tabular Data" -> render_table(slice, config)
                   [] config.type = "Big Number" -> render_big_number(slice, config, ord)
                   [] config.type = "Gauge" -> render_gauge(slice, config, ord, pick)]

render_loop(df, chs, fd, td, ord, pick) ==
    LET all == [i \in 1..Len(chs) |-> render_chart(df, chs[i], fd, td, ord, pick)]
        errs == {i \in 1..Len(chs) : all[i].out.kind = "error"}
    IN  IF errs = {} THEN all ELSE SubSeq(all, 1, SetMin(errs))

\* The inputs offered by the dialog's number_input widgets (their defaults).
GaugeInputs == {0, 100}

TableChoices(df) ==
    {s \in UNION {[1..k -> df.columns] : k \in 0..MaxTableCols} :
        \A a, b \in 1..Len(s) : a # b => s[a] # s[b]}

\* configure_chart_dialog: every chart_config the dialog can hand over.
configure_chart_dialog(df) ==
    LET numeric_cols == df.numeric
        all_cols == df.columns
        \* st.selectbox over an empty list returns None
        parameters == IF numeric_cols = {} THEN {NoneStr} ELSE numeric_cols
    IN  UNION {
          {[asset_type |-> t, type |-> "Line Chart", parameter |-> p,
            display_mode |-> "Individual"] : p \in parameters}
          \cup
          {[asset_type |-> t, type |-> "Line Chart", parameter |-> p,
            display_mode |-> "Grouped", aggregation |-> a] :
              p \in parameters, a \in {"sum", "mean"}}
          \cup
          {[asset_type |-> t, type |-> "Tabular Data", parameters |-> s] :
              s \in TableChoices(df)}
          \cup
          {[asset_type |-> t, type |-> "Big Number", parameter |-> p,
            aggregation |-> a] : p \in parameters, a \in {"sum", "mean"}}
          \cup
          {[asset_type |-> t, type |-> "Gauge", parameter |-> p,
            min_val |-> lo, max_val |-> hi] :
              p \in parameters, lo \in GaugeInputs, hi \in GaugeInputs}
          : t \in Range(asset_types(df))}

\* ------------------------------------------------------------------ inputs
Plds == {"A1", "B2"}
AssetTypes == {"Pump", "Valve"}
NoParams == [c \in {} |-> NaN]
NoFile == [kind |-> "none", entries |-> <<>>]

EntriesOver(plds, types, stamps, dicts) ==
    [pld : plds, asset_type : types, timestamp : stamps, parameters : dicts]

FilesOver(entries, n) ==
    {[kind |-> "list", entries |-> s] : s \in UNION {[1..k -> entries] : k \in 0..n}}
    \cup {[kind |-> "malformed", entries |-> <<>>],
          [kind |-> "not_a_list", entries |-> <<>>]}

\* The uploads of the session: pumps that report flow (one of them under a
\* timestamp that does not parse) and valves that report pressure or nothing.
SessionEntries ==
    EntriesOver({"A1"}, {"Pump"}, {JIso(0, 0), JStr}, {"flow" :> JNum(5)})
    \cup EntriesOver({"A1"}, {"Valve"}, {JIso(0, 0)},
                     {NoParams, "pressure" :> JNum(3)})

SessionFiles == FilesOver(SessionEntries, MaxEntries)

\* The dialog choices of the session: every chart type, one aggregation,
\* no table column, and the gauge bounds either way round.
SessionChoice(c) ==
    /\ "aggregation" \in DOMAIN c => c.aggregation = "sum"
    /\ "parameters" \in DOMAIN c => c.parameters = <<>>
    /\ "min_val" \in DOMAIN c => c.min_val # c.max_val

\* ------------------------------------------------------------------- state
VARIABLES uploaded_file, data, charts, show_modal, page, from_date, to_date,
          rendered

vars == <<uploaded_file, data, charts, show_modal, page, from_date, to_date,
          rendered>>

\* Home.py:12-18, before any upload.
Init ==
    /\ uploaded_file = NoFile
    /\ data = EmptyDF
    /\ charts = <<>>
    /\ show_modal = FALSE
    /\ page = "Home"
    /\ from_date = 0
    /\ to_date = 0
    /\ rendered = <<>>

\* The reset of the charts left out of the upload handler.
process_upload_keeps_charts(file) ==
    LET df == load_and_process_data(file)
    IN  /\ data' = df
        /\ from_date' = IF empty(df) THEN 0 ELSE min_date(df)
        /\ to_date' = IF empty(df) THEN 0 ELSE max_date(df)
        /\ page' = "Home"
        /\ rendered' = <<>>
        /\ UNCHANGED <<charts, show_modal>>

\* Home.py:35-43: the dataset is assigned whatever load_and_process_data
\* returned; the charts are reset only when it is not empty.
process_upload(file) ==
    LET df == load_and_process_data(file)
    IN  /\ data' = df
        /\ charts' = IF ~empty(df) THEN <<>> ELSE charts
        \* the date inputs of the next Dashboard run start at their defaults
        /\ from_date' = IF empty(df) THEN 0 ELSE min_date(df)
        /\ to_date' = IF empty(df) THEN 0 ELSE max_date(df)
        /\ page' = "Home"
        /\ rendered' = <<>>
        /\ UNCHANGED show_modal

Upload(file) ==
    /\ uploaded_file' = file
    /\ process_upload(file)

\* Home.py run with no file in the uploader.
ViewHome ==
    /\ page' = "Home"
    /\ rendered' = <<>>
    /\ uploaded_file' = NoFile
    /\ UNCHANGED <<data, charts, show_modal, from_date, to_date>>

\* The rest of a Dashboard.py run once the session state is chs: the page
\* stops at an empty dataset, otherwise the chart loop runs.
dashboard_run(chs, fd, td) ==
    /\ page' = "Dashboard"
    /\ uploaded_file' = NoFile
    /\ from_date' = fd
    /\ to_date' = td
    /\ IF empty(data) THEN rendered' = <<>>
       ELSE \E ord \in SortOrders(data), pick \in {r.pld : r \in Range(data.rows)} :
              rendered' = render_loop(data, chs, fd, td, ord, pick)

\* Open the Dashboard page, or change its date inputs.
ViewDashboard(fd, td) ==
    /\ IF empty(data) THEN fd = from_date /\ td = to_date
       ELSE /\ fd \in min_date(data)..max_date(data)
            /\ td \in min_date(data)..max_date(data)
    /\ dashboard_run(charts, fd, td)
    /\ UNCHANGED <<data, charts, show_modal>>

\* Dashboard.py:45-46
ClickAddChart ==
    /\ page = "Dashboard" /\ ~empty(data)
    /\ show_modal' = TRUE
    /\ dashboard_run(charts, from_date, to_date)
    /\ UNCHANGED <<data, charts>>

\* charting.py:105-108, then the rerun.
AddToDashboard(chart_config) ==
    /\ page = "Dashboard" /\ ~empty(data) /\ show_modal
    /\ Len(charts) < MaxCharts
    /\ chart_config \in configure_chart_dialog(data)
    /\ charts' = Append(charts, chart_config)
    /\ show_modal' = FALSE
    /\ dashboard_run(charts', from_date, to_date)
    /\ UNCHANGED data

\* The index ignored: the first chart is removed whichever button is pressed.
pop_first(s, i) == Tail(s)

\* list.pop(i)
pop(s, i) == SubSeq(s, 1, i - 1) \o SubSeq(s, i + 1, Len(s))

\* Dashboard.py:93-95: the button of chart i exists once the chart rendered.
RemoveChart(i) ==
    /\ page = "Dashboard" /\ ~empty(data)
    /\ i \in 1..Len(rendered) /\ rendered[i].out.kind # "error"
    /\ charts' = pop(charts, i)
    /\ dashboard_run(charts', from_date, to_date)
    /\ UNCHANGED <<data, show_modal>>

Next ==
    \/ \E file \in SessionFiles : Upload(file)
    \/ ViewHome
    \/ \E fd, td \in 0..(MaxDays - 1) : ViewDashboard(fd, td)
    \/ ClickAddChart
    \/ \E chart_config \in {c \in configure_chart_dialog(data) : SessionChoice(c)} :
          AddToDashboard(chart_config)
    \/ \E i \in 1..MaxCharts : RemoveChart(i)

Spec == Init /\ [][Next]_vars

\* ---------------------------------------------------- the normaliser alone
\* Uploads that exercise load_and_process_data: timestamps with and without
\* a UTC offset, a string that is no date, a missing timestamp, and
\* parameters objects that carry a key named 'timestamp' themselves.
LoadEntries ==
    EntriesOver({"A1"}, {"Pump"},
                {JIso(TicksPerDay, 0), JIso(TicksPerDay, TicksPerSec), JStr, JNull},
                {NoParams, "flow" :> JNum(5), "timestamp" :> JStr,
                 "timestamp" :> JIso(0, 0)})

LoadFiles == FilesOver(LoadEntries, MaxLoadEntries)

\* The first upload of a session.
FirstUpload(file) ==
    /\ uploaded_file = NoFile /\ page = "Home" /\ data = EmptyDF
    /\ Upload(file)

NextLoad ==
    /\ uploaded_file = NoFile
    /\ \E file \in LoadFiles : FirstUpload(file)

SpecLoad == Init /\ [][NextLoad]_vars

\* ------------------------------------------------- the Dashboard page alone
\* Datasets for the date filter: rows of both asset types at every tick of
\* the first two days.
FilterEntries ==
    EntriesOver({"A1"}, AssetTypes,
                {JIso(t, 0) : t \in 0..(2 * TicksPerDay - 1)},
                {"flow" :> JNum(5)})

\* Datasets for the renderers: two pumps, readings at midnight of each day,
\* with and without a flow value.
RenderEntries ==
    EntriesOver(Plds, {"Pump"},
                {JIso(d * TicksPerDay, 0) : d \in 0..(MaxDays - 1)},
                {NoParams, "flow" :> JNum(5), "flow" :> JNum(7)})

ViewFiles == FilesOver(FilterEntries, MaxEntries) \cup FilesOver(RenderEntries, MaxEntries)

\* The dialog choices of the Dashboard runs: every chart type and
\* aggregation, the default gauge bounds, no table column.
ViewChoice(c) ==
    /\ "parameters" \in DOMAIN c => c.parameters = <<>>
    /\ "min_val" \in DOMAIN c => c.min_val < c.max_val

\* A session in which a file was uploaded and one chart added, back on the
\* Home page: Upload, ViewDashboard, ClickAddChart, AddToDashboard, ViewHome.
InitView ==
    /\ uploaded_file = NoFile
    /\ data \in {load_and_process_data(f) : f \in ViewFiles}
    /\ ~empty(data)
    /\ charts \in {<<c>> : c \in {x \in configure_chart_dialog(data) : ViewChoice(x)}}
    /\ show_modal = FALSE
    /\ page = "Home"
    /\ from_date = min_date(data)
    /\ to_date = max_date(data)
    /\ rendered = <<>>

NextView == \E fd, td \in 0..(MaxDays - 1) : ViewDashboard(fd, td)

SpecView == InitView /\ [][NextView]_vars

\* ================================================================== claims

\* A file whose upload fails: no JSON, no sequence, or a sequence that gives
\* no timestamp column.
FailedUpload(file) == file.kind # "list" \/ file.entries = <<>>

\* C1: every upload that replaces the dataset leaves the chart list empty, whatever the new dataset
\* holds: in the state a Home run leaves after processing an uploaded file
\* there is no chart configuration.
C1_UploadClearsCharts ==
    (page = "Home" /\ uploaded_file # NoFile /\ ~FailedUpload(uploaded_file))
      => charts = <<>>

\* C2: an upload that fails leaves the loaded dataset and the chart list as
\* they were before it.
C2_FailedUploadKeepsState ==
    [][(uploaded_file' # NoFile /\ FailedUpload(uploaded_file') /\ ~empty(data))
         => (data' = data /\ charts' = charts)]_vars

\* C3: the date filter keeps a row of the chart's asset type iff its
\* timestamp lies between 00:00:00 of from_date and the last tick
\* (23:59:59.999999) of to_date, both included.
C3_InclusiveAtFullResolution ==
    page = "Dashboard" =>
      \A i \in 1..Len(rendered) : \A r \in Range(data.rows) :
        r.asset_type = charts[i].asset_type =>
          ((r \in Range(rendered[i].chart_df))
             <=> (/\ r.timestamp >= from_date * TicksPerDay
                  /\ r.timestamp <= to_date * TicksPerDay + TicksPerDay - 1))

Parses(v) == v.k = "iso"
NoCollision(file) ==
    \A i \in 1..Len(file.entries) : "timestamp" \notin DOMAIN file.entries[i].parameters

\* What C4 says of the dataset a sequence of objects was loaded into.
RetainsParsed(file, df) ==
    LET kept == {i \in 1..Len(file.entries) : Parses(file.entries[i].timestamp)}
    IN  /\ {r.index : r \in Range(df.rows)} = kept
        /\ Len(df.rows) = Len(file.entries) - Cardinality((1..Len(file.entries)) \ kept)
        /\ \A r \in Range(df.rows) : r.timestamp # NaT /\ r.timestamp >= 0
        /\ kept = {} => empty(df)

\* C4 as stated: for every sequence of objects, the entries retained are
\* exactly those whose timestamp parses, each with a non-null timestamp, and
\* their number is the input length minus the entries whose timestamp does
\* not parse.
C4_RetainsExactlyParsed ==
    (uploaded_file # NoFile /\ uploaded_file.kind = "list")
      => RetainsParsed(uploaded_file, data)

\* C4 as amended: the same, for every sequence of objects none of whose
\* parameters objects has a key named 'timestamp'.
C4_RetainsExactlyParsedNoCollision ==
    (uploaded_file # NoFile /\ uploaded_file.kind = "list" /\ NoCollision(uploaded_file))
      => RetainsParsed(uploaded_file, data)

\* C4 witness: an upload without such a key of which one entry was dropped
\* and the others retained.
C4_Witness ==
    /\ uploaded_file.kind = "list" /\ NoCollision(uploaded_file)
    /\ Len(uploaded_file.entries) >= 2
    /\ Len(data.rows) = Len(uploaded_file.entries) - 1
    /\ \E i \in 1..Len(uploaded_file.entries) :
         uploaded_file.entries[i].timestamp.off # 0

\* C5: every Gauge configuration of the chart list has min_val <= max_val.
C5_GaugeBoundsOrdered ==
    \A i \in 1..Len(charts) :
      charts[i].type = "Gauge" => charts[i].min_val <= charts[i].max_val

\* C6: every configured parameter is a numeric column that at least one
\* record of the configuration's own asset type carries.
C6_ParameterOfOwnAssetType ==
    ~empty(data) =>
      \A i \in 1..Len(charts) :
        ("parameter" \in DOMAIN charts[i] /\ charts[i].parameter # NoneStr) =>
          \E r \in Range(data.rows) :
            /\ r.asset_type = charts[i].asset_type
            /\ r.cells[charts[i].parameter].k = "num"

\* The rows of a slice that fall on day d.
RowsOfDay(rows, d) == SelectSeq(rows, LAMBDA r : date(r.timestamp) = d)

\* C7: a Grouped line chart has exactly one point per day that has a row in
\* the slice, in ascending day order, whose value is the sum (or mean) of the
\* parameter over the rows of that day.
C7_OnePointPerDayWithRows ==
    page = "Dashboard" =>
      \A i \in 1..Len(rendered) :
        (charts[i].type = "Line Chart" /\ charts[i].display_mode = "Grouped"
           /\ rendered[i].out.kind = "grouped") =>
          LET rows == rendered[i].chart_df
              pts == rendered[i].out.data
          IN  /\ {pts[k].day : k \in 1..Len(pts)} = {date(r.timestamp) : r \in Range(rows)}
              /\ \A a, b \in 1..Len(pts) : a < b => pts[a].day < pts[b].day
              /\ \A k \in 1..Len(pts) :
                   LET cells == column(RowsOfDay(rows, pts[k].day), charts[i].parameter)
                   IN  /\ pts[k].value.num = SumCells(cells)
                       /\ pts[k].value.den = IF charts[i].aggregation = "sum" THEN 1
                                             ELSE CountCells(cells)

\* C8: a Big Number whose slice has no rows, or no row with a value for the
\* parameter, shows "N/A".
C8_EmptyInputIsNA ==
    page = "Dashboard" =>
      \A i \in 1..Len(rendered) :
        (/\ charts[i].type = "Big Number"
         /\ \A r \in Range(rendered[i].chart_df) :
              charts[i].parameter \in ParamNames => r.cells[charts[i].parameter] = NaN)
          => rendered[i].out.kind = "N/A"

\* The chronologically last row of pld p: the greatest timestamp, and among
\* equal timestamps the one later in the original order.
LastRow(rows, p) ==
    CHOOSE r \in Range(rows) :
      /\ r.pld = p
      /\ \A q \in Range(rows) : q.pld = p =>
           \/ q.timestamp < r.timestamp
           \/ (q.timestamp = r.timestamp /\ q.index <= r.index)

\* No pld has two rows of the same timestamp.
NoTies(rows) ==
    \A a, b \in 1..Len(rows) :
      (a # b /\ rows[a].pld = rows[b].pld) => rows[a].timestamp # rows[b].timestamp

\* C9: over a non-empty slice, Big Number is the sum (or mean) over the plds
\* of the parameter value of each pld's chronologically last row.  Stated
\* for the slices in which the last row of every pld is settled by the
\* timestamps alone, so that the order sort_values gives to equal timestamps
\* plays no part.
C9_SumOfLastRows ==
    page = "Dashboard" =>
      \A i \in 1..Len(rendered) :
        (/\ charts[i].type = "Big Number"
         /\ rendered[i].chart_df # <<>>
         /\ NoTies(rendered[i].chart_df)
         /\ charts[i].parameter \in data.columns) =>
          LET rows == rendered[i].chart_df
              plds == SetToSeq({r.pld : r \in Range(rows)})
              cells == [k \in 1..Len(plds) |->
                          LastRow(rows, plds[k]).cells[charts[i].parameter]]
          IN  /\ rendered[i].out.kind = "metric"
              /\ rendered[i].out.value = agg(cells, charts[i].aggregation)

\* C10: a Gauge shows a number only when the latest row of the selected pld
\* in the slice carries a value for the parameter; the number is that value
\* and min and max are the configured bounds.
C10_GaugeOnlyWithValue ==
    page = "Dashboard" =>
      \A i \in 1..Len(rendered) :
        (charts[i].type = "Gauge" /\ rendered[i].out.kind = "gauge") =>
          LET o == rendered[i].out
              mine == {r \in Range(rendered[i].chart_df) : r.pld = o.pld}
              latest == {r \in mine : \A q \in mine : q.timestamp <= r.timestamp}
          IN  /\ \E r \in latest :
                   /\ r.cells[charts[i].parameter].k = "num"
                   /\ o.value = r.cells[charts[i].parameter]
              /\ o.min = charts[i].min_val
              /\ o.max = charts[i].max_val

\* charts' is charts with chart_config put at its end and nothing else changed.
AppendedOnly(chart_config) ==
    /\ Len(charts') = Len(charts) + 1
    /\ charts'[Len(charts')] = chart_config
    /\ \A j \in 1..Len(charts) : charts'[j] = charts[j]

\* charts' is charts without its i-th entry and nothing else changed.
RemovedOnly(i) ==
    /\ Len(charts') = Len(charts) - 1
    /\ \A j \in 1..(i - 1) : charts'[j] = charts[j]
    /\ \A j \in i..Len(charts') : charts'[j] = charts[j + 1]

\* C11: without an upload, adding a chart appends that configuration at the
\* end, removing index i deletes the i-th entry only, both leave every other
\* configuration and the order as they were, and no other step of the
\* session changes the chart list.
C11_AddAppendsRemoveDeletesOne ==
    [][/\ \A c \in configure_chart_dialog(data) :
            AddToDashboard(c) => AppendedOnly(c)
       /\ \A i \in 1..MaxCharts : RemoveChart(i) => RemovedOnly(i)
       /\ (/\ uploaded_file' = NoFile
           /\ ~ \E c \in configure_chart_dialog(data) : AddToDashboard(c)
           /\ ~ \E i \in 1..MaxCharts : RemoveChart(i))
            => charts' = charts]_vars

\* C11 witness: two different charts added one after the other, both
\* rendered with their Remove buttons.
C11_Witness ==
    /\ page = "Dashboard" /\ Len(charts) = 2 /\ charts[1] # charts[2]
    /\ Len(rendered) = 2
    /\ \A i \in 1..2 : rendered[i].out.kind # "error"

\* C12: whenever the dataset is not empty (the Dashboard renders charts),
\* every chart configuration has an asset_type of the current dataset.
C12_ChartsOfCurrentDataset ==
    ~empty(data) =>
      \A i \in 1..Len(charts) : charts[i].asset_type \in Range(asset_types(data))

\* C12 witness: a chart rendered against a dataset that holds only the
\* chart's asset type, though not the only asset type of the uploads.
C12_Witness ==
    /\ page = "Dashboard" /\ Len(rendered) >= 1
    /\ asset_types(data) = <<"Valve">>
    /\ charts[1].asset_type = "Valve"

\* C13: with from_date and to_date at their defaults, the dataset's first
\* and last day, the slice of every chart is all rows of the chart's
\* asset_type.
C13_DefaultRangeKeepsAllRows ==
    (page = "Dashboard" /\ from_date = min_date(data) /\ to_date = max_date(data)) =>
      \A i \in 1..Len(rendered) :
        rendered[i].chart_df =
          SelectSeq(data.rows, LAMBDA r : r.asset_type = charts[i].asset_type)

====
